---- MODULE Spec2Model ----
(***************************************************************************)
(* Model of the SEO analysis backend: the request handlers `analyze` (the  *)
(* persisting controller, the browser-driven controller and the           *)
(* EnhancedAnalyzer controller) and the crawl of EnhancedAnalyzer.         *)
(*                                                                         *)
(* URLs are strings, modelled as sequences of string tokens: "h:" is the   *)
(* scheme with its "//", "a" is a host name, ".e" is a further host label,  *)
(* "/" is the path separator and "x" / "y" are path segments.  So           *)
(* <<"h:","a">> is http://a and <<"h:","a",".e","/">> is http://a.e/ .      *)
(* String operations (startsWith, new URL(...).href) act on the tokens as   *)
(* they act on the characters.                                             *)
(***************************************************************************)
EXTENDS Integers, Sequences, FiniteSets, TLC

VARIABLES
    handler,      \* which `analyze` controller serves the request
    body,         \* req.body: [url, keywords]
    apiKey,       \* process.env.OPENAI_API_KEY: "unread", "set" or "missing"
    pc,           \* position of the handler's async function
    responses,    \* status codes written to res, in order
    effects,      \* side effects performed for the request
    toVisit,      \* crawlWebsite: the frontier (array used as FIFO)
    visited,      \* crawlWebsite: Set of visited urls
    pages,        \* crawlWebsite: the result array; records [url, links]
    iter,         \* the current loop iteration: its url, its outcome and the
                  \* absolute URLs of the <a href> of the page it loaded
    crawled,      \* urls fetched at least once ("Crawling: ..." logged)
    recrawled,    \* urls fetched more than once
    failed,       \* urls with a failed fetch ("Failed to crawl ..." logged)
    result,       \* analyzeWebsite: "none", "report" (returned) or "error" (threw)
    aiInsights,   \* "none", "object" (parsed reply) or "marker" ({error: true, ...})
    db,           \* number of reports stored by Report.save()
    internalLinks,     \* browser-driven: links the for loop has still to visit
    internalPagesData, \* browser-driven: urls of the internal pages collected
    pending,      \* browser-driven: calls of the Promise.all still in flight
    pageSpeed,    \* browser-driven: "none", "score" or "null" ({score: null})
    pdf,          \* generatePdfReport: "none", "writing", "written", "rejected"
    input,        \* the arguments of one call of an analysis function
    output        \* what that call returned

vars == <<handler, body, apiKey, pc, responses, effects, toVisit, visited, pages,
          iter, crawled, recrawled, failed, result, aiInsights, db, internalLinks,
          internalPagesData, pending, pageSpeed, pdf, input, output>>

\* ------------------------------------------------------------------ bounds

\* this.maxPages = 5
maxPages == 5

\* most <a href> elements on one fetched page
MaxHrefs == 2

\* ------------------------------------------------------------------ URLs

\* Seed strings a client may send: "http://a" and "http://a/".
Seeds == { <<"h:", "a">>, <<"h:", "a", "/">> }

\* href attribute values found on pages: absolute URLs, a path-absolute
\* reference ("/x"), and "http://" which new URL() rejects.
HrefPool ==
    { <<"h:", "a">>,
      <<"/", "x">>,
      <<"h:", "a", "/", "x", "/", "y">>,
      <<"h:", "a", ".e", "/">>,
      <<"h:">> }

\* The href lists a page can carry, in document order.
HrefSeqs == UNION { [1..n -> HrefPool] : n \in 0..MaxHrefs }

\* String.prototype.startsWith
StartsWith(s, p) == Len(p) <= Len(s) /\ SubSeq(s, 1, Len(p)) = p

\* Index of the first "/" of the path, Len(u)+1 when the URL has no path.
FirstSlash(u) ==
    IF \E i \in 1..Len(u) : u[i] = "/"
    THEN CHOOSE i \in 1..Len(u) : u[i] = "/" /\ \A j \in 1..(i-1) : u[j] # "/"
    ELSE Len(u) + 1

\* URL.origin: scheme, host and port.
Origin(u) == SubSeq(u, 1, FirstSlash(u) - 1)

\* new URL(href, base) throws for an href with a scheme and no host.
NewUrlThrows(href) == href = <<"h:">>

\* new URL(href, base).href: an absolute href is serialised with at least the
\* path "/", a path-absolute href is put on the base's origin.
NewUrlHref(href, base) ==
    IF href # <<>> /\ href[1] = "h:"
    THEN (IF FirstSlash(href) > Len(href) THEN Append(href, "/") ELSE href)
    ELSE Origin(base) \o href

\* The absolute URLs of a page's hrefs, unparsable ones dropped.
RECURSIVE ResolveAll(_, _)
ResolveAll(hrefs, base) ==
    IF hrefs = <<>> THEN <<>>
    ELSE LET rest == ResolveAll(Tail(hrefs), base)
         IN  IF NewUrlThrows(Head(hrefs)) THEN rest
             ELSE <<NewUrlHref(Head(hrefs), base)>> \o rest

\* [...new Set(links)]: first occurrences, in order.
RECURSIVE Unique(_)
Unique(s) ==
    IF s = <<>> THEN <<>>
    ELSE LET init == Unique(SubSeq(s, 1, Len(s) - 1))
             last == s[Len(s)]
         IN  IF \E i \in 1..Len(init) : init[i] = last THEN init
             ELSE Append(init, last)

Range(s) == { s[i] : i \in 1..Len(s) }

\* The test extractLinks applies to an absolute URL before keeping it.
KeepLink(absoluteUrl, baseUrl) == StartsWith(absoluteUrl, baseUrl)

\* EnhancedAnalyzer.extractLinks($, baseUrl)
extractLinks(hrefs, baseUrl) ==
    Unique(SelectSeq(ResolveAll(hrefs, baseUrl), LAMBDA u : KeepLink(u, baseUrl)))

\* ------------------------------------------------------------------ request

Handlers == { "persist", "browser", "enhanced" }

Undefined == [t |-> "undefined"]
Str(v) == [t |-> "string", s |-> v]
Arr(v) == [t |-> "array", a |-> v]

\* Request bodies: url missing, empty or a seed; keywords missing, a string,
\* an empty array or an array of one keyword.
Bodies ==
    { [url |-> Undefined, keywords |-> Arr(<<"k">>)],
      [url |-> Str(<<>>), keywords |-> Arr(<<"k">>)],
      [url |-> Str(<<"h:", "a", "/">>), keywords |-> Undefined],
      [url |-> Str(<<"h:", "a", "/">>), keywords |-> Str(<<"k">>)],
      [url |-> Str(<<"h:", "a", "/">>), keywords |-> Arr(<<>>)] }
    \cup { [url |-> Str(u), keywords |-> Arr(<<"k">>)] : u \in Seeds }

\* JavaScript truthiness of a body field.
Truthy(v) ==
    CASE v.t = "undefined" -> FALSE
      [] v.t = "string" -> v.s # <<>>
      [] v.t = "array" -> TRUE

IsArray(v) == v.t = "array"

\* A validation that forgets Array.isArray.
InvalidNoArrayTest(b) == ~Truthy(b.url) \/ ~Truthy(b.keywords)

\* if (!url || !keywords || !Array.isArray(keywords)) return res.status(400)
Invalid(b) == ~Truthy(b.url) \/ ~Truthy(b.keywords) \/ ~IsArray(b.keywords)

NoIter == [url |-> <<>>, outcome |-> "none", anchors |-> {}]

\* No analysis function has been called.
NoCall == [kind |-> "none"]

\* The state of the server when a request arrives.
Idle ==
    /\ apiKey = "unread"
    /\ pc = "recv"
    /\ responses = <<>>
    /\ effects = {}
    /\ toVisit = <<>>
    /\ visited = {}
    /\ pages = <<>>
    /\ iter = NoIter
    /\ crawled = {}
    /\ recrawled = {}
    /\ failed = {}
    /\ result = "none"
    /\ aiInsights = "none"
    /\ db = 0
    /\ internalLinks = <<>>
    /\ internalPagesData = <<>>
    /\ pending = {}
    /\ pageSpeed = "none"
    /\ pdf = "none"

Init ==
    /\ handler \in Handlers
    /\ body \in Bodies
    /\ input = NoCall
    /\ output = NoCall
    /\ Idle

crawlVars == <<toVisit, visited, pages, iter, crawled, recrawled, failed>>
browserVars == <<internalLinks, internalPagesData, pending, pageSpeed>>

\* res.status(code).json(...)
Send(code) == responses' = Append(responses, code)

\* The validation of the controller rejects the body.
ValidateReject ==
    /\ pc = "recv"
    /\ Invalid(body)
    /\ Send(400)
    /\ pc' = "done"
    /\ UNCHANGED <<input, output, handler, body, apiKey, effects, crawlVars, result, aiInsights,
                   db, browserVars, pdf>>

\* analyzer.analyzeWebsite(url, keywords) enters crawlWebsite.
StartAnalyzer ==
    /\ pc = "recv"
    /\ ~Invalid(body)
    /\ handler \in { "persist", "enhanced" }
    /\ toVisit' = <<body.url.s>>
    /\ pc' = "crawl"
    /\ UNCHANGED <<input, output, handler, body, apiKey, responses, effects, visited, pages, iter,
                   crawled, recrawled, failed, result, aiInsights, db, browserVars,
                   pdf>>

\* ------------------------------------------------------------------ crawl

\* The loop condition with the cap tested one page too late.
LoopConditionOffByOne == toVisit # <<>> /\ Len(pages) <= maxPages

\* while (toVisit.length > 0 && pages.length < this.maxPages)
LoopCondition == toVisit # <<>> /\ Len(pages) < maxPages

\* Reading the head of the frontier without removing it.
ShiftKeepsHead(queue) == queue

\* const currentUrl = toVisit.shift(): what is left on the frontier.
Shift(queue) == Tail(queue)

\* The fetch of url is logged.
LogCrawling(url) ==
    /\ crawled' = crawled \cup { url }
    /\ recrawled' = IF url \in crawled THEN recrawled \cup { url } ELSE recrawled

\* if (visited.has(currentUrl)) continue;
CrawlSkipVisited ==
    /\ pc = "crawl"
    /\ LoopCondition
    /\ Head(toVisit) \in visited
    /\ toVisit' = Shift(toVisit)
    /\ iter' = [url |-> Head(toVisit), outcome |-> "skipped", anchors |-> {}]
    /\ UNCHANGED <<input, output, handler, body, apiKey, pc, responses, effects, visited, pages,
                   crawled, recrawled, failed, result, aiInsights, db, browserVars,
                   pdf>>

\* A catch block that gives the crawl up.
AfterFailureAbort(rest, currentUrl) == <<>>

\* What the catch block of the loop leaves on the frontier.
AfterFailure(rest, currentUrl) == rest

\* crawlPage(currentUrl) throws: the catch block warns and the loop goes on.
CrawlPageFails ==
    /\ pc = "crawl"
    /\ LoopCondition
    /\ Head(toVisit) \notin visited
    /\ LET currentUrl == Head(toVisit)
       IN  /\ LogCrawling(currentUrl)
           /\ failed' = failed \cup { currentUrl }
           /\ toVisit' = AfterFailure(Shift(toVisit), currentUrl)
           /\ iter' = [url |-> currentUrl, outcome |-> "failed", anchors |-> {}]
    /\ effects' = effects \cup { "fetch" }
    /\ UNCHANGED <<input, output, handler, body, apiKey, pc, responses, visited, pages, result,
                   aiInsights, db, browserVars, pdf>>

\* links.filter(link => !visited.has(link))
NotVisited(links, seen) == SelectSeq(links, LAMBDA l : l \notin seen)

\* What a fetched document gives the crawl, for every href list it may carry.
Documents(url) ==
    { [links |-> extractLinks(hrefs, url),
       anchors |-> Range(ResolveAll(hrefs, url))] : hrefs \in HrefSeqs }

\* A push that puts the page in front of the pages collected before it.
PushFront(arr, el) == <<el>> \o arr

\* pages.push(page)
Push(arr, el) == Append(arr, el)

\* crawlPage(currentUrl) returns a page: it is pushed, marked visited and its
\* links not yet visited are pushed on the frontier.
CrawlPageOk ==
    /\ pc = "crawl"
    /\ LoopCondition
    /\ Head(toVisit) \notin visited
    /\ LET currentUrl == Head(toVisit)
       IN  \E doc \in Documents(currentUrl) :
             /\ LogCrawling(currentUrl)
             /\ pages' = Push(pages, [url |-> currentUrl, links |-> doc.links])
             /\ visited' = visited \cup { currentUrl }
             /\ iter' = [url |-> currentUrl, outcome |-> "ok", anchors |-> doc.anchors]
             /\ toVisit' = Shift(toVisit) \o NotVisited(doc.links, visited')
    /\ effects' = effects \cup { "fetch" }
    /\ UNCHANGED <<input, output, handler, body, apiKey, pc, responses, failed, result, aiInsights,
                   db, browserVars, pdf>>

\* new OpenAI({apiKey: process.env.OPENAI_API_KEY}) reads the key; the
\* constructor throws when it is missing.
ReadKey(k) ==
    /\ k \in (IF apiKey = "unread" THEN { "set", "missing" } ELSE { apiKey })
    /\ apiKey' = k

\* crawlWebsite returns; analyzePages runs; generateAiInsights builds the
\* client outside its try block and sends the prompt.  A throw of the
\* constructor leaves analyzeWebsite as "Failed to analyze website" and the
\* controller's catch answers 500.
AnalyzePages ==
    /\ pc = "crawl"
    /\ ~LoopCondition
    /\ iter' = NoIter
    /\ \E k \in { "set", "missing" } :
         /\ ReadKey(k)
         /\ IF k = "missing"
            THEN /\ result' = "error"
                 /\ Send(500)
                 /\ pc' = "done"
                 /\ UNCHANGED effects
            ELSE /\ effects' = effects \cup { "model" }
                 /\ pc' = "insights"
                 /\ UNCHANGED <<result, responses>>
    /\ UNCHANGED <<input, output, handler, body, toVisit, visited, pages, crawled, recrawled,
                   failed, aiInsights, db, browserVars, pdf>>

\* What generateAiInsights returns for an outcome of the model call: the
\* parsed object, or the error marker built by its catch block when the call
\* throws or JSON.parse rejects the reply.
Insights(reply) == IF reply = "json" THEN "object" ELSE "marker"

ModelReplies == { "json", "notjson", "throws" }

\* The report handed to generatePdfReport by the persisting controller: the
\* fields it copies from analysisResult.analysis, which has no pageSpeed,
\* readabilityScore or homepageSuggestions, and a keywordDensity of objects.
PersistPdfData ==
    [ keywordDensity |-> IF body.keywords.a = <<>> THEN "empty" ELSE "objects",
      pageSpeed |-> "undefined",
      readabilityScore |-> "undefined",
      homepageSuggestions |-> "undefined",
      aiInsights |-> aiInsights ]

\* generatePdfReport throws inside its try block (and so rejects) when it
\* calls toFixed on a density that is no number, reads pageSpeed.score or
\* readabilityScore.toFixed of undefined, or iterates undefined suggestions
\* or FAQs.
PdfThrows(data) ==
    \/ data.keywordDensity = "objects"
    \/ data.pageSpeed = "undefined"
    \/ data.readabilityScore = "undefined"
    \/ data.homepageSuggestions = "undefined"
    \/ data.aiInsights = "marker"

\* The model call settles and analyzeWebsite returns the report.  The
\* EnhancedAnalyzer controller answers with it; the persisting controller
\* builds the Report and awaits report.save().
AiReply ==
    /\ pc = "insights"
    /\ \E reply \in ModelReplies : aiInsights' = Insights(reply)
    /\ result' = "report"
    /\ IF handler = "enhanced"
       THEN /\ Send(200)
            /\ pc' = "done"
            /\ UNCHANGED effects
       ELSE /\ effects' = effects \cup { "save" }
            /\ pc' = "save"
            /\ UNCHANGED responses
    /\ UNCHANGED <<input, output, handler, body, apiKey, crawlVars, db, browserVars, pdf>>

\* report.save() rejects: the catch block answers 500.
SaveFails ==
    /\ pc = "save"
    /\ Send(500)
    /\ pc' = "done"
    /\ UNCHANGED <<input, output, handler, body, apiKey, effects, crawlVars, result, aiInsights,
                   db, browserVars, pdf>>

\* report.save() resolves; generatePdfReport is called and awaited.
SaveOk ==
    /\ pc = "save"
    /\ db' = db + 1
    /\ effects' = effects \cup { "pdf" }
    /\ IF PdfThrows(PersistPdfData)
       THEN /\ pdf' = "rejected"
            /\ Send(500)
            /\ pc' = "done"
       ELSE /\ pdf' = "writing"
            /\ pc' = "pdf"
            /\ UNCHANGED responses
    /\ UNCHANGED <<input, output, handler, body, apiKey, crawlVars, result, aiInsights,
                   browserVars>>

\* The write stream finishes: the promise resolves.  The persisting
\* controller, which awaits it, then answers with the report.
PdfFinish ==
    /\ pdf = "writing"
    /\ pdf' = "written"
    /\ IF pc = "pdf"
       THEN Send(200) /\ pc' = "done"
       ELSE UNCHANGED <<responses, pc>>
    /\ UNCHANGED <<input, output, handler, body, apiKey, effects, crawlVars, result, aiInsights,
                   db, browserVars>>

\* ------------------------------------------------------------------ browser-driven controller

\* getInternalLinks(page, url, 5)
maxLinks == 5

\* The href property of an anchor: the resolved URL, or the attribute as
\* written when it does not parse.
AnchorHref(href, docUrl) ==
    IF NewUrlThrows(href) THEN href ELSE NewUrlHref(href, docUrl)

Take(s, n) == SubSeq(s, 1, IF Len(s) < n THEN Len(s) ELSE n)

\* getInternalLinks: the anchors starting with page.url(), deduplicated,
\* without baseUrl, the first maxLinks of them.
getInternalLinks(hrefs, pageUrl, baseUrl) ==
    LET all == [i \in 1..Len(hrefs) |-> AnchorHref(hrefs[i], pageUrl)]
        own == SelectSeq(all, LAMBDA h : StartsWith(h, pageUrl))
    IN  Take(SelectSeq(Unique(own), LAMBDA l : l # baseUrl), maxLinks)

\* puppeteer.launch is called, outside any try block.
StartBrowser ==
    /\ pc = "recv"
    /\ ~Invalid(body)
    /\ handler = "browser"
    /\ effects' = effects \cup { "launch" }
    /\ pc' = "launch"
    /\ UNCHANGED <<input, output, handler, body, apiKey, responses, crawlVars, result, aiInsights,
                   db, browserVars, pdf>>

\* puppeteer.launch or browser.newPage rejects: the handler's promise rejects
\* and nothing is written to res.
LaunchFails ==
    /\ pc = "launch"
    /\ pc' = "rejected"
    /\ UNCHANGED <<input, output, handler, body, apiKey, responses, effects, crawlVars, result,
                   aiInsights, db, browserVars, pdf>>

\* The browser and the page exist; page.goto(url) is awaited.
LaunchOk ==
    /\ pc = "launch"
    /\ pc' = "goto"
    /\ UNCHANGED <<input, output, handler, body, apiKey, responses, effects, crawlVars, result,
                   aiInsights, db, browserVars, pdf>>

\* page.goto(url) rejects: the outer catch closes the browser and answers 500.
SeedGotoFails ==
    /\ pc = "goto"
    /\ LogCrawling(body.url.s)
    /\ failed' = failed \cup { body.url.s }
    /\ effects' = effects \cup { "fetch" }
    /\ Send(500)
    /\ pc' = "done"
    /\ UNCHANGED <<input, output, handler, body, apiKey, toVisit, visited, pages, iter, result,
                   aiInsights, db, browserVars, pdf>>

\* The seed page is loaded and read; its internal links are collected.
SeedGotoOk ==
    /\ pc = "goto"
    /\ LogCrawling(body.url.s)
    /\ effects' = effects \cup { "fetch" }
    /\ \E hrefs \in HrefSeqs :
         internalLinks' =
             getInternalLinks(hrefs, NewUrlHref(body.url.s, body.url.s), body.url.s)
    /\ pc' = "internal"
    /\ UNCHANGED <<input, output, handler, body, apiKey, responses, toVisit, visited, pages, iter,
                   failed, result, aiInsights, db, internalPagesData, pending,
                   pageSpeed, pdf>>

\* for (const link of internalLinks): page.goto(link) or the reading of the
\* page rejects; the inner catch logs it and the loop goes on.
InternalGotoFails ==
    /\ pc = "internal"
    /\ internalLinks # <<>>
    /\ LogCrawling(Head(internalLinks))
    /\ failed' = failed \cup { Head(internalLinks) }
    /\ iter' = [url |-> Head(internalLinks), outcome |-> "failed", anchors |-> {}]
    /\ internalLinks' = Tail(internalLinks)
    /\ UNCHANGED <<input, output, handler, body, apiKey, pc, responses, effects, toVisit, visited,
                   pages, result, aiInsights, db, internalPagesData, pending,
                   pageSpeed, pdf>>

\* The internal page is loaded and pushed on internalPagesData.
InternalGotoOk ==
    /\ pc = "internal"
    /\ internalLinks # <<>>
    /\ LogCrawling(Head(internalLinks))
    /\ iter' = [url |-> Head(internalLinks), outcome |-> "ok", anchors |-> {}]
    /\ internalPagesData' = Append(internalPagesData, Head(internalLinks))
    /\ internalLinks' = Tail(internalLinks)
    /\ UNCHANGED <<input, output, handler, body, apiKey, pc, responses, effects, toVisit, visited,
                   pages, failed, result, aiInsights, db, pending, pageSpeed, pdf>>

\* Promise.all([getPageSpeedData(url), generateAiInsights(allContent)]): the
\* page-speed request is sent, then generateAiInsights builds its client
\* outside its try block.  When the constructor throws the join rejects and
\* the outer catch answers 500; otherwise both calls are in flight.
StartJoin(k) ==
    /\ ReadKey(k)
    /\ IF k = "missing"
       THEN /\ pending' = { "pageSpeed" }
            /\ effects' = effects \cup { "pagespeed" }
            /\ Send(500)
            /\ pc' = "done"
       ELSE /\ pending' = { "pageSpeed", "insights" }
            /\ effects' = effects \cup { "pagespeed", "model" }
            /\ pc' = "join"
            /\ UNCHANGED responses

\* The loop is over: the local analysis runs.  With a sample paragraph,
\* generateParagraphRewrite builds its client (outside its try block) and
\* awaits the model; without one the join starts at once.
BrowserAnalyze ==
    /\ pc = "internal"
    /\ internalLinks = <<>>
    /\ iter' = NoIter
    /\ \E sampleParagraph \in BOOLEAN, k \in { "set", "missing" } :
         IF sampleParagraph
         THEN /\ ReadKey(k)
              /\ IF k = "missing"
                 THEN /\ Send(500)
                      /\ pc' = "done"
                      /\ UNCHANGED effects
                 ELSE /\ effects' = effects \cup { "model" }
                      /\ pc' = "rewrite"
                      /\ UNCHANGED responses
              /\ UNCHANGED pending
         ELSE StartJoin(k)
    /\ UNCHANGED <<input, output, handler, body, toVisit, visited, pages, crawled, recrawled,
                   failed, result, aiInsights, db, internalLinks, internalPagesData,
                   pageSpeed, pdf>>

\* The rewrite call settles (its own catch turns a failure into a text).
RewriteDone ==
    /\ pc = "rewrite"
    /\ \E k \in { "set", "missing" } : StartJoin(k)
    /\ UNCHANGED <<input, output, handler, body, crawlVars, result, aiInsights, db, internalLinks,
                   internalPagesData, pageSpeed, pdf>>

\* getPageSpeedData settles: a score, or {score: null} from its catch block.
PageSpeedDone ==
    /\ "pageSpeed" \in pending
    /\ pending' = pending \ { "pageSpeed" }
    /\ \E v \in { "score", "null" } : pageSpeed' = v
    /\ UNCHANGED <<input, output, handler, body, apiKey, pc, responses, effects, crawlVars, result,
                   aiInsights, db, internalLinks, internalPagesData, pdf>>

\* generateAiInsights settles: the parsed reply or the error marker.
InsightsDone ==
    /\ "insights" \in pending
    /\ pending' = pending \ { "insights" }
    /\ \E reply \in ModelReplies : aiInsights' = Insights(reply)
    /\ UNCHANGED <<input, output, handler, body, apiKey, pc, responses, effects, crawlVars, result,
                   db, internalLinks, internalPagesData, pageSpeed, pdf>>

\* The report handed to generatePdfReport by the browser-driven controller.
BrowserPdfData ==
    [ keywordDensity |-> "numbers",
      pageSpeed |-> "defined",
      readabilityScore |-> "number",
      homepageSuggestions |-> "array",
      aiInsights |-> aiInsights ]

\* Both calls have settled: the browser is closed, the report is sent and
\* generatePdfReport is started without being awaited.
JoinRespond ==
    /\ pc = "join"
    /\ pending = {}
    /\ Send(200)
    /\ effects' = effects \cup { "pdf" }
    /\ pdf' = IF PdfThrows(BrowserPdfData) THEN "rejected" ELSE "writing"
    /\ pc' = "done"
    /\ UNCHANGED <<input, output, handler, body, apiKey, crawlVars, result, aiInsights, db,
                   browserVars>>

\* ------------------------------------------------------------------ specifications

Next ==
    \/ ValidateReject
    \/ StartAnalyzer
    \/ CrawlSkipVisited
    \/ CrawlPageFails
    \/ CrawlPageOk
    \/ AnalyzePages
    \/ AiReply
    \/ SaveFails
    \/ SaveOk
    \/ PdfFinish
    \/ StartBrowser
    \/ LaunchFails
    \/ LaunchOk
    \/ SeedGotoFails
    \/ SeedGotoOk
    \/ InternalGotoFails
    \/ InternalGotoOk
    \/ BrowserAnalyze
    \/ RewriteDone
    \/ PageSpeedDone
    \/ InsightsDone
    \/ JoinRespond

Spec == Init /\ [][Next]_vars

\* Every awaited call settles, so a handler that can take a step takes one.
FairSpec == Init /\ [][Next]_vars /\ WF_vars(Next)

\* The crawl alone, as run by analyzeWebsite for one valid request.
CrawlInit == Init /\ handler = "enhanced" /\ ~Invalid(body)

CrawlNext ==
    \/ StartAnalyzer
    \/ CrawlSkipVisited
    \/ CrawlPageFails
    \/ CrawlPageOk
    \/ AnalyzePages

\* Every fetch returns or fails, so the loop takes its next step.
CrawlFairSpec == CrawlInit /\ [][CrawlNext]_vars /\ WF_vars(CrawlNext)

\* ------------------------------------------------------------------ properties

Seed == body.url.s

CrawlReturned == pc \notin { "recv", "crawl" }

C2_FetchedAtMostOnce ==
    /\ recrawled = {}
    /\ \A i \in 1..Len(pages) : pages[i].url \notin failed

\* C3: crawlWebsite terminates, and when it has returned either maxPages
\* pages were collected or the frontier is empty.
C3_CrawlTerminates ==
    /\ <>CrawlReturned
    /\ [](CrawlReturned => (Len(pages) = maxPages \/ toVisit = <<>>))

\* The same termination as a variant: every iteration of the loop either
\* adds a page (at most maxPages fit) or shortens the frontier, and in the
\* loop a step is always possible.
C3_VariantDecreases ==
    /\ [](pc = "crawl" => ENABLED CrawlNext)
    /\ [][ (pc = "crawl" /\ pc' = "crawl") =>
             \/ Len(pages') > Len(pages) /\ Len(pages') <= maxPages
             \/ Len(pages') = Len(pages) /\ Len(toVisit') < Len(toVisit) ]_vars

\* The crawl returned at the cap with links left, after a failed fetch and
\* a page that links to itself.
C3_Witness ==
    /\ CrawlReturned
    /\ Len(pages) = maxPages
    /\ toVisit # <<>>
    /\ failed # {}
    /\ \E i \in 1..Len(pages) : pages[i].url \in Range(pages[i].links)

\* The crawl returned below the cap because the frontier ran empty.
C3_WitnessExhausted ==
    /\ CrawlReturned
    /\ Len(pages) < maxPages
    /\ Len(pages) > 1
    /\ toVisit = <<>>

\* C4: every url in the links of a page record and every url on the
\* frontier has the origin of the seed url.
C4_SameOriginOnly ==
    pc \in { "crawl", "insights" } =>
        /\ \A i \in 1..Len(toVisit) : Origin(toVisit[i]) = Origin(Seed)
        /\ \A i \in 1..Len(pages) :
             \A l \in Range(pages[i].links) : Origin(l) = Origin(Seed)

\* C5: after a successful fetch every link of the page that has the seed's
\* origin and is not visited is on the frontier.
C5_SameOriginLinksEnqueued ==
    (pc = "crawl" /\ iter.outcome = "ok") =>
        \A u \in iter.anchors :
            (Origin(u) = Origin(Seed) /\ u \notin visited) => u \in Range(toVisit)

\* C6: a step in which the fetch of one url fails leaves the pages collected
\* so far as they are, writes no response, keeps the loop running and takes
\* only the failed url off the urls still to process.
C6_FailureIsolated ==
    [][ (pc \in { "crawl", "internal" } /\ iter'.outcome = "failed") =>
          /\ pc' = pc
          /\ responses' = responses
          /\ pages' = pages
          /\ internalPagesData' = internalPagesData
          /\ pc = "crawl" => toVisit' = Tail(toVisit)
          /\ pc = "internal" => internalLinks' = Tail(internalLinks) ]_vars

\* A fetch has just failed in the middle of a crawl: pages are collected and
\* urls are left on the frontier.
C6_Witness ==
    /\ pc = "crawl"
    /\ iter.outcome = "failed"
    /\ pages # <<>>
    /\ toVisit # <<>>

\* C7: when the seed url cannot be fetched, no success response is sent.
C7_SeedFailureAborts ==
    (~Invalid(body) /\ Seed \in failed /\ Seed \notin visited) =>
        \A i \in 1..Len(responses) : responses[i] # 200

\* C8: a body without url, without keywords or with keywords that is no
\* array is answered with 400 and nothing else is done for the request.
C8_InvalidRejected ==
    (\/ body.url.t = "undefined"
     \/ body.keywords.t = "undefined"
     \/ body.keywords.t # "array") =>
        /\ pc \in { "recv", "done" }
        /\ pc = "done" => responses = <<400>>
        /\ pc = "recv" => responses = <<>>
        /\ effects = {}
        /\ crawled = {}
        /\ db = 0
        /\ pdf = "none"

\* A request with keywords that is no array has been answered.
C8_Witness ==
    /\ body.keywords.t = "string"
    /\ pc = "done"
    /\ responses = <<400>>

\* C9: a valid request whose handler has finished has received exactly one
\* response.
C9_ExactlyOneResponse ==
    (~Invalid(body) /\ pc \in { "done", "rejected" }) => Len(responses) = 1

\* C10: once generateAiInsights is over without a parsed reply, the insights
\* are the error marker and analyzeWebsite has returned its report.
C10_ModelFailureDegrades ==
    (handler # "browser" /\ pc \notin { "recv", "crawl", "insights" }
        /\ ~Invalid(body) /\ aiInsights # "object") =>
        (aiInsights = "marker" /\ result = "report")

\* C11: when generatePdfReport fails the request is not aborted: the one
\* response of the request is the success response.
C11_PdfFailureNotFatal ==
    pdf = "rejected" => responses = <<200>>

\* C12: in the browser-driven controller, once the page-speed call and the
\* insights call have been started, the request ends with the success
\* response and with both calls settled, whatever the outcome of either.
C12_JoinDegrades ==
    (handler = "browser" /\ "pagespeed" \in effects /\ pc = "done") =>
        (responses = <<200>> /\ pending = {})

\* C13: the result of crawlWebsite is in the order in which the urls were
\* taken off the frontier: the seed, when fetched, is the first page; every
\* page added is the url just dequeued and goes behind the pages added before
\* it; and the frontier is first in, first out (a step of the loop removes
\* its head and adds the new links at its end).
C13_ResultInDequeueOrder ==
    /\ [](pages # <<>> => pages[1].url = Seed)
    /\ [][ pc = "crawl" =>
             /\ \/ pages' = pages
                \/ /\ Len(pages') = Len(pages) + 1
                   /\ SubSeq(pages', 1, Len(pages)) = pages
                   /\ pages'[Len(pages')].url = Head(toVisit)
             /\ pc' = "crawl" => StartsWith(toVisit', Tail(toVisit)) ]_vars

\* A crawl returned three or more pages, the seed first, with links it
\* discovered on the second page fetched after links of the first.
C13_Witness ==
    /\ CrawlReturned
    /\ Len(pages) >= 3
    /\ pages[1].url = Seed
    /\ pages[2].url \in Range(pages[1].links)
    /\ pages[3].url \in Range(pages[2].links)
    /\ pages[3].url \notin Range(pages[1].links)

\* ------------------------------------------------------------------ page text

\* Texts are sequences of characters: the letter a in both cases and the
\* blank, which stands for any white space.

\* longest text of a document analysed alone
MaxText == 5

\* longest text of a document analysed together with another
MaxPairText == 3

\* content.substring(0, 10000)
contentCap == 10000

\* The texts of a document's content elements, as cheerio's text() gives
\* them, up to a length.
TextsTo(len) == UNION { [1..n -> { "a", "A", " " }] : n \in 0..len }

\* Keywords a client sends: the empty string, one letter in either case, two
\* letters and two words.
KeywordPool == { <<>>, <<"a">>, <<"A">>, <<"a", "a">>, <<"a", " ", "a">> }

\* replace(/\s+/g, ' '): of every run of blanks the first is kept.
CollapseSpaces(s) ==
    LET marked == [i \in 1..Len(s) |->
                     [c |-> s[i], keep |-> ~(s[i] = " " /\ i > 1 /\ s[i-1] = " ")]]
        kept == SelectSeq(marked, LAMBDA m : m.keep)
    IN  [i \in 1..Len(kept) |-> kept[i].c]

\* String.prototype.trim
Trim(s) ==
    LET letters == { i \in 1..Len(s) : s[i] # " " }
    IN  IF letters = {} THEN <<>>
        ELSE SubSeq(s, CHOOSE i \in letters : \A j \in letters : i <= j,
                       CHOOSE i \in letters : \A j \in letters : j <= i)

\* EnhancedAnalyzer.extractContent($)
extractContent(text) == Take(Trim(CollapseSpaces(text)), contentCap)

\* text.split(/\s+/).filter(word => word.length > 0): the maximal runs of
\* characters that are no blanks, in order.
Words(s) ==
    LET IsStart(i) == s[i] # " " /\ (i = 1 \/ s[i-1] = " ")
        starts == SelectSeq([i \in 1..Len(s) |-> i], IsStart)
        End(p) == CHOOSE e \in p..Len(s) :
                      /\ \A j \in p..e : s[j] # " "
                      /\ e = Len(s) \/ s[e+1] = " "
    IN  [k \in 1..Len(starts) |-> SubSeq(s, starts[k], End(starts[k]))]

\* EnhancedAnalyzer.getWordCount($)
getWordCount(text) == Len(Words(extractContent(text)))

\* String.prototype.toLowerCase
toLowerCase(s) ==
    [i \in 1..Len(s) |-> CASE s[i] = "A" -> "a"
                           [] s[i] = "W" -> "w"
                           [] OTHER -> s[i]]

\* The matches of a global regular expression made of the literal kw, found
\* from position i on: left to right, each search starting where the match
\* before it ended; the empty expression matches once at every position,
\* the end of the string included.
RECURSIVE MatchesFrom(_, _, _)
MatchesFrom(s, kw, i) ==
    LET found == { p \in i..(Len(s) + 1 - Len(kw)) : SubSeq(s, p, p + Len(kw) - 1) = kw }
    IN  IF found = {} THEN 0
        ELSE LET first == CHOOSE p \in found : \A q \in found : p <= q
             IN  1 + MatchesFrom(s, kw, first + (IF kw = <<>> THEN 1 ELSE Len(kw)))

\* (content.match(new RegExp(keywordLower, 'gi')) || []).length
MatchCount(content, keywordLower) ==
    MatchesFrom(toLowerCase(content), toLowerCase(keywordLower), 1)

\* The fields of a crawled page the keyword analysis reads.
TextPage(url, text) ==
    [url |-> url, content |-> extractContent(text), wordCount |-> getWordCount(text)]

\* ------------------------------------------------------------------ keyword density

\* A JavaScript number that is a quotient of integers, kept exact.
Num(n, d) == [n |-> n, d |-> d]

\* The quotient as a fraction of 1: the factor 100 is left out.
Fraction(count, total) == Num(count, IF total > 0 THEN total ELSE 1)

\* total > 0 ? (count / total) * 100 : 0
Percent(count, total) == IF total > 0 THEN Num(count * 100, total) ELSE Num(0, 1)

\* Number.prototype.toFixed(2): the decimal string "int.frac" of the number
\* rounded to hundredths, half up.
toFixed2(x) ==
    LET q == (2 * x.n * 100 + x.d) \div (2 * x.d)
    IN  [int |-> q \div 100, frac |-> q % 100]

RECURSIVE SumTo(_, _)
SumTo(f, n) == IF n = 0 THEN 0 ELSE f[n] + SumTo(f, n - 1)

\* EnhancedAnalyzer.analyzeKeywordDensity(pages, keywords)
analyzeKeywordDensity(pgs, keywords) ==
    [ keyword \in Range(keywords) |->
        LET occurrences == [i \in 1..Len(pgs) |-> MatchCount(pgs[i].content, keyword)]
            wordCounts == [i \in 1..Len(pgs) |-> pgs[i].wordCount]
            totalOccurrences == SumTo(occurrences, Len(pgs))
            totalWords == SumTo(wordCounts, Len(pgs))
        IN  [ overall |-> Percent(totalOccurrences, totalWords),
              byPage |-> [i \in 1..Len(pgs) |->
                            [ url |-> pgs[i].url,
                              occurrences |-> occurrences[i],
                              density |-> toFixed2(Percent(occurrences[i],
                                                           pgs[i].wordCount)) ]] ] ]

\* calculateKeywordDensity(text, keywords) of the browser-driven controller:
\* the words of the text equal to the keyword, over all its words.
calculateKeywordDensity(text, keywords) ==
    LET wordArray == Words(toLowerCase(text))
        totalWords == Len(wordArray)
    IN  [ keyword \in Range(keywords) |->
            LET count == Len(SelectSeq(wordArray, LAMBDA word : word = toLowerCase(keyword)))
            IN  Percent(count, totalWords) ]

\* The urls of the pages handed to the analysis.
PageUrls == << <<"h:", "a", "/">>, <<"h:", "a", "/", "x">> >>

\* The page records crawlPage builds from document texts.
TextPages(texts) == [i \in 1..Len(texts) |-> TextPage(PageUrls[i], texts[i])]

\* One or two documents.
TextLists ==
    { <<t>> : t \in TextsTo(MaxText) }
    \cup { <<t, u>> : t \in TextsTo(MaxPairText), u \in TextsTo(MaxPairText) }

\* n words "a", each after a blank.
Filler(n) == [i \in 1..(2 * n) |-> IF i % 2 = 1 THEN " " ELSE "a"]

\* A text of 100 words that has the word "Widgets" twice.
WidgetsText ==
    <<"W", "i", "d", "g", "e", "t", "s", " ", "W", "i", "d", "g", "e", "t", "s">>
        \o Filler(98)

\* The calls of the keyword analysis: documents and the keyword list.
DensityInputs ==
    { [kind |-> "density", texts |-> ts, keywords |-> <<k>>] :
          ts \in TextLists, k \in KeywordPool }
    \cup { [kind |-> "density", texts |-> <<WidgetsText>>,
            keywords |-> << <<"w", "i", "d", "g", "e", "t", "s">> >>] }

\* Everything but the result of the call.
callVars == <<handler, body, apiKey, pc, responses, effects, toVisit, visited,
              pages, iter, crawled, recrawled, failed, result, aiInsights, db,
              internalLinks, internalPagesData, pending, pageSpeed, pdf, input>>

\* analyzePages calls analyzeKeywordDensity on the crawled pages.
AnalyzeKeywordDensity ==
    /\ input.kind = "density"
    /\ output = NoCall
    /\ output' = [ kind |-> "analyzeKeywordDensity",
                   density |-> analyzeKeywordDensity(TextPages(input.texts),
                                                     input.keywords) ]
    /\ UNCHANGED callVars

\* The browser-driven controller calls calculateKeywordDensity on the text
\* of the seed page.
CalculateKeywordDensity ==
    /\ input.kind = "density"
    /\ output = NoCall
    /\ output' = [ kind |-> "calculateKeywordDensity",
                   density |-> calculateKeywordDensity(input.texts[1],
                                                       input.keywords) ]
    /\ UNCHANGED callVars

\* ------------------------------------------------------------------ meta tags

\* page.title.length <= 60
titleMax == 60

\* page.description.length <= 155
descriptionMax == 155

\* A string of n characters.
Chars(n) == [i \in 1..n |-> "t"]

\* Titles and descriptions of crawled pages: empty, one character, and the
\* lengths around the limit.
Titles == { Chars(n) : n \in { 0, 1, titleMax - 1, titleMax, titleMax + 1 } }
Descriptions ==
    { Chars(n) : n \in { 0, 1, descriptionMax - 1, descriptionMax, descriptionMax + 1 } }

\* The fields of a crawled page analyzeMetaTags reads.
MetaPages == { [title |-> t, description |-> d] : t \in Titles, d \in Descriptions }

\* The calls of analyzeMetaTags: one or two pages.
MetaInputs ==
    { [kind |-> "meta", pages |-> ps] :
          ps \in { <<p>> : p \in MetaPages } \cup { <<p, q>> : p \in MetaPages, q \in MetaPages } }

\* The suggestions analyzeMetaTags pushes for one page, in order.
PageSuggestions(url, page) ==
    (IF Len(page.title) > titleMax
     THEN << [url |-> url, type |-> "title"] >> ELSE <<>>)
    \o (IF Len(page.description) > descriptionMax \/ Len(page.description) = 0
        THEN << [url |-> url, type |-> "description"] >> ELSE <<>>)

\* The issues analyzeMetaTags pushes for one page, in order.
PageIssues(url, page) ==
    (IF Len(page.title) = 0
     THEN << [url |-> url, issue |-> "Missing title"] >> ELSE <<>>)
    \o (IF Len(page.title) > titleMax
        THEN << [url |-> url, issue |-> "Title too long"] >> ELSE <<>>)
    \o (IF Len(page.description) = 0
        THEN << [url |-> url, issue |-> "Missing description"] >> ELSE <<>>)
    \o (IF Len(page.description) > descriptionMax
        THEN << [url |-> url, issue |-> "Description too long"] >> ELSE <<>>)

\* pages.forEach: the issues of the pages from i on, in page order.
RECURSIVE IssuesFrom(_, _)
IssuesFrom(pgs, i) ==
    IF i > Len(pgs) THEN <<>>
    ELSE PageIssues(PageUrls[i], pgs[i]) \o IssuesFrom(pgs, i + 1)

\* pages.forEach: the suggestions of the pages from i on, in page order.
RECURSIVE SuggestionsFrom(_, _)
SuggestionsFrom(pgs, i) ==
    IF i > Len(pgs) THEN <<>>
    ELSE PageSuggestions(PageUrls[i], pgs[i]) \o SuggestionsFrom(pgs, i + 1)

\* EnhancedAnalyzer.analyzeMetaTags(pages)
analyzeMetaTags(pgs) ==
    [ title |-> [i \in 1..Len(pgs) |->
          [ url |-> PageUrls[i],
            length |-> Len(pgs[i].title),
            valid |-> Len(pgs[i].title) > 0 /\ Len(pgs[i].title) <= titleMax ]],
      description |-> [i \in 1..Len(pgs) |->
          [ url |-> PageUrls[i],
            length |-> Len(pgs[i].description),
            valid |-> Len(pgs[i].description) > 0
                          /\ Len(pgs[i].description) <= descriptionMax ]],
      issues |-> IssuesFrom(pgs, 1),
      suggestions |-> SuggestionsFrom(pgs, 1) ]

\* analyzePages calls analyzeMetaTags on the crawled pages.
AnalyzeMetaTags ==
    /\ input.kind = "meta"
    /\ output = NoCall
    /\ output' = [kind |-> "analyzeMetaTags", metaTags |-> analyzeMetaTags(input.pages)]
    /\ UNCHANGED callVars

\* ------------------------------------------------------------------ structured data

\* most JSON-LD script elements on one page
MaxBlocks == 3

\* The texts of script[type="application/ld+json"] elements: an unfinished
\* object, an object without @context, an object with the schema.org
\* context, and the literal null.
BlockTexts == { "{", "{name}", "{@context:schema.org}", "null" }

\* The JSON-LD elements of a page, in document order.
BlockSeqs == UNION { [1..n -> BlockTexts] : n \in 0..MaxBlocks }

\* JSON.parse(text) throws a SyntaxError.
JsonParseThrows(text) == text = "{"

\* JSON.parse(text), for a text it accepts.
JsonParse(text) ==
    CASE text = "{name}" -> [type |-> "object", context |-> "undefined"]
      [] text = "{@context:schema.org}" -> [type |-> "object", context |-> "https://schema.org"]
      [] text = "null" -> [type |-> "null", context |-> "undefined"]

\* A loop whose try block is around the whole iteration: the first block
\* that does not parse ends the collection.
RECURSIVE extractStructuredDataAbort(_)
extractStructuredDataAbort(blocks) ==
    IF blocks = <<>> THEN <<>>
    ELSE IF JsonParseThrows(Head(blocks)) THEN <<>>
    ELSE <<JsonParse(Head(blocks))>> \o extractStructuredDataAbort(Tail(blocks))

\* EnhancedAnalyzer.extractStructuredData($): each element is parsed in its
\* own try block; the catch block warns.
RECURSIVE extractStructuredData(_)
extractStructuredData(blocks) ==
    IF blocks = <<>> THEN <<>>
    ELSE IF JsonParseThrows(Head(blocks)) THEN extractStructuredData(Tail(blocks))
    ELSE <<JsonParse(Head(blocks))>> \o extractStructuredData(Tail(blocks))

\* json['@context'] && json['@context'].includes('schema.org') throws a
\* TypeError: json is null.
ContextTestThrows(json) == json.type = "null"

\* detectStructuredData(page): true at the first element that parses and has
\* a schema.org context; the catch block ignores what the parse and the test
\* throw.
RECURSIVE detectStructuredData(_)
detectStructuredData(blocks) ==
    IF blocks = <<>> THEN FALSE
    ELSE IF JsonParseThrows(Head(blocks)) THEN detectStructuredData(Tail(blocks))
    ELSE IF ContextTestThrows(JsonParse(Head(blocks)))
         THEN detectStructuredData(Tail(blocks))
    ELSE IF JsonParse(Head(blocks)).context = "https://schema.org" THEN TRUE
    ELSE detectStructuredData(Tail(blocks))

\* The calls of the structured-data functions.
BlockInputs == { [kind |-> "blocks", blocks |-> bs] : bs \in BlockSeqs }

\* crawlPage calls extractStructuredData on the document.
ExtractStructuredData ==
    /\ input.kind = "blocks"
    /\ output = NoCall
    /\ output' = [ kind |-> "extractStructuredData",
                   structuredData |-> extractStructuredData(input.blocks) ]
    /\ UNCHANGED callVars

\* The browser-driven controller calls detectStructuredData on a page.
DetectStructuredData ==
    /\ input.kind = "blocks"
    /\ output = NoCall
    /\ output' = [ kind |-> "detectStructuredData",
                   hasStructuredData |-> detectStructuredData(input.blocks) ]
    /\ UNCHANGED callVars

\* ------------------------------------------------------------------ headings and suggestions

\* most H1 elements on one page
MaxH1 == 2

\* The fields of a page the heading checks read: the texts of its h1 and h2
\* elements (no page drawn has an h3), the alt texts of its images that are
\* not empty, and the keywords of the request.
HeadingInputs ==
    { [kind |-> "headings", headings |-> [h1 |-> h1, h2 |-> h2, h3 |-> <<>>],
       altTags |-> alts, keywords |-> kws] :
          h1 \in UNION { [1..n -> { <<"a">>, <<"A", "A">> }] : n \in 0..MaxH1 },
          h2 \in { <<>>, << <<"a">> >> },
          alts \in { <<>>, << <<"a">> >> },
          kws \in { <<>>, << <<"A">> >>, << <<"a", "a">> >> } }

\* Array.prototype.join(' ')
RECURSIVE Join(_)
Join(texts) ==
    IF texts = <<>> THEN <<>>
    ELSE IF Len(texts) = 1 THEN texts[1]
    ELSE texts[1] \o <<" ">> \o Join(Tail(texts))

\* String.prototype.includes
Includes(s, sub) ==
    \E i \in 1..(Len(s) + 1) :
        i + Len(sub) - 1 <= Len(s) /\ SubSeq(s, i, i + Len(sub) - 1) = sub

AddH1 == [text |-> "Add at least one H1 heading to improve SEO.", keyword |-> <<>>]
OnlyOneH1 == [text |-> "Use only one H1 heading per page for better SEO.", keyword |-> <<>>]
IncludeKeyword(keyword) == [text |-> "Include the keyword in your headings.", keyword |-> keyword]
AddAlt ==
    [text |-> "Add alt attributes to images for better accessibility and SEO.", keyword |-> <<>>]

\* if (!h1 || h1.length === 0) ... else if (h1.length > 1) ...
H1Suggestions(h1) ==
    IF Len(h1) = 0 THEN <<AddH1>>
    ELSE IF Len(h1) > 1 THEN <<OnlyOneH1>>
    ELSE <<>>

\* keywords.forEach: a suggestion for each keyword the headings do not have.
RECURSIVE KeywordSuggestions(_, _)
KeywordSuggestions(headingText, keywords) ==
    IF keywords = <<>> THEN <<>>
    ELSE (IF ~Includes(headingText, toLowerCase(Head(keywords)))
          THEN <<IncludeKeyword(Head(keywords))>> ELSE <<>>)
         \o KeywordSuggestions(headingText, Tail(keywords))

\* generateSuggestions(pageData, keywords) of the browser-driven controller
generateSuggestions(pageData, keywords) ==
    LET h == pageData.headings
        headingText == toLowerCase(Join(h.h1 \o h.h2 \o h.h3))
    IN  H1Suggestions(h.h1)
        \o KeywordSuggestions(headingText, keywords)
        \o (IF Len(pageData.altTags) = 0 THEN <<AddAlt>> ELSE <<>>)

\* EnhancedAnalyzer.analyzeHeadingStructure(pages), for the seed page alone:
\* two independent tests on the number of h1 elements.
analyzeHeadingStructure(page) ==
    [ issues |-> (IF Len(page.headings.h1) = 0
                  THEN << [url |-> PageUrls[1], issue |-> "Missing H1"] >> ELSE <<>>)
                 \o (IF Len(page.headings.h1) > 1
                     THEN << [url |-> PageUrls[1], issue |-> "Multiple H1 tags"] >>
                     ELSE <<>>),
      hierarchy |-> << [url |-> PageUrls[1], headings |-> page.headings] >> ]

\* The analysis object analyzeWebsite returns for the seed page: the fields
\* analyzePages builds and aiInsights.  The fields the heading checks do not
\* fill are left as "object".
analyzePagesResult(page) ==
    [ pages |-> "object",
      metaTags |-> "object",
      keywordDensity |-> "object",
      technical |-> [headingStructure |-> analyzeHeadingStructure(page)],
      contentQuality |-> "object",
      structuredData |-> "object",
      aiInsights |-> "object" ]

\* obj[name]: undefined for a property the object does not have.
Prop(obj, name) ==
    IF name \in DOMAIN obj THEN [t |-> "value", v |-> obj[name]] ELSE Undefined

\* The `analysis` object the persisting controller builds from
\* analysisResult.analysis, property by property.
PersistAnalysis(analysis) ==
    [ metaTags |-> Prop(analysis, "metaTags"),
      keywordDensity |-> Prop(analysis, "keywordDensity"),
      pageSpeed |-> Prop(analysis, "pageSpeed"),
      readabilityScore |-> Prop(analysis, "readabilityScore"),
      internalPagesSuggestions |-> Prop(analysis, "internalPagesSuggestions"),
      homepageSuggestions |-> Prop(analysis, "homepageSuggestions"),
      aiInsights |-> Prop(analysis, "aiInsights") ]

\* The browser-driven controller calls generateSuggestions on the seed page.
GenerateSuggestions ==
    /\ input.kind = "headings"
    /\ output = NoCall
    /\ output' = [ kind |-> "generateSuggestions",
                   homepageSuggestions |-> generateSuggestions(input, input.keywords) ]
    /\ UNCHANGED callVars

\* analyzePages of EnhancedAnalyzer runs on the seed page; the
\* EnhancedAnalyzer controller sends the analysis as it is.
AnalyzeHeadingStructure ==
    /\ input.kind = "headings"
    /\ output = NoCall
    /\ output' = [kind |-> "analyzePages", analysis |-> analyzePagesResult(input)]
    /\ UNCHANGED callVars

\* The persisting controller builds its `analysis` object from the analysis
\* of EnhancedAnalyzer.
BuildPersistAnalysis ==
    /\ input.kind = "headings"
    /\ output = NoCall
    /\ output' = [ kind |-> "persistAnalysis",
                   analysis |-> PersistAnalysis(analyzePagesResult(input)) ]
    /\ UNCHANGED callVars

\* ------------------------------------------------------------------ analysis functions, called on their own

\* The calls made of the analysis functions.
Inputs == DensityInputs \cup MetaInputs \cup BlockInputs \cup HeadingInputs

\* One call of one analysis function on arguments out of Inputs, made in the
\* course of a valid request to the EnhancedAnalyzer controller.
AnalysisInit ==
    /\ handler = "enhanced"
    /\ body = [url |-> Str(PageUrls[1]), keywords |-> Arr(<<"k">>)]
    /\ input \in Inputs
    /\ output = NoCall
    /\ Idle

AnalysisNext ==
    \/ AnalyzeKeywordDensity
    \/ CalculateKeywordDensity
    \/ AnalyzeMetaTags
    \/ ExtractStructuredData
    \/ DetectStructuredData
    \/ GenerateSuggestions
    \/ AnalyzeHeadingStructure
    \/ BuildPersistAnalysis

AnalysisSpec == AnalysisInit /\ [][AnalysisNext]_vars

\* ------------------------------------------------------------------ properties of the analysis functions

\* A number between 0 and 100.
IsPercentage(x) == 0 <= x.n /\ x.n <= 100 * x.d

\* C14: every keyword density reported, per page and overall, by
\* analyzeKeywordDensity and by calculateKeywordDensity, is between 0 and
\* 100, and it is 0 when the keyword does not occur.
C14_DensityInRange ==
    /\ output.kind = "analyzeKeywordDensity" =>
         \A keyword \in DOMAIN output.density :
            LET d == output.density[keyword]
            IN  /\ IsPercentage(d.overall)
                /\ (\A i \in DOMAIN d.byPage : d.byPage[i].occurrences = 0)
                       => d.overall.n = 0
                /\ \A i \in DOMAIN d.byPage :
                      /\ IsPercentage(Num(d.byPage[i].density.int * 100
                                              + d.byPage[i].density.frac, 100))
                      /\ d.byPage[i].occurrences = 0 =>
                             d.byPage[i].density = [int |-> 0, frac |-> 0]
    /\ output.kind = "calculateKeywordDensity" =>
         \A keyword \in DOMAIN output.density :
            /\ IsPercentage(output.density[keyword])
            /\ (\A word \in Range(Words(toLowerCase(input.texts[1]))) :
                    word # toLowerCase(keyword))
                   => output.density[keyword].n = 0

\* The density string of page i for a keyword, in hundredths of a percent.
Hundredths(byPage, i) == byPage[i].density.int * 100 + byPage[i].density.frac

C16_IssueIffSuggestion ==
    output.kind = "analyzeMetaTags" =>
        \A i \in 1..Len(input.pages) :
           LET m == output.metaTags
               Issue(msgs) == \E k \in 1..Len(m.issues) :
                                 m.issues[k].url = PageUrls[i] /\ m.issues[k].issue \in msgs
               Suggestion(type) == \E k \in 1..Len(m.suggestions) :
                                      m.suggestions[k] = [url |-> PageUrls[i], type |-> type]
               titleLength == Len(input.pages[i].title)
               descriptionLength == Len(input.pages[i].description)
               titleOutside == ~(0 < titleLength /\ titleLength <= 60)
               descriptionOutside == ~(0 < descriptionLength /\ descriptionLength <= 155)
           IN  /\ Issue({ "Missing title", "Title too long" }) <=> titleOutside
               /\ Suggestion("title") <=> titleOutside
               /\ Issue({ "Missing description", "Description too long" })
                      <=> descriptionOutside
               /\ Suggestion("description") <=> descriptionOutside
               /\ Issue({ "Title too long" }) <=> titleLength > 60
               /\ Issue({ "Description too long" }) <=> descriptionLength > 155

\* C17: on a page with several JSON-LD blocks, extractStructuredData
\* returns, for every placement of the blocks that do not parse, the parsed
\* values of all the blocks that do, in document order; detectStructuredData
\* returns whether one of the blocks that parse has the schema.org context.
C17_MalformedBlockSkipped ==
    /\ output.kind = "extractStructuredData" =>
         LET wellFormed == SelectSeq(input.blocks, LAMBDA text : text # "{")
         IN  /\ Len(output.structuredData) = Len(wellFormed)
             /\ \A i \in 1..Len(wellFormed) :
                    output.structuredData[i] = JsonParse(wellFormed[i])
    /\ output.kind = "detectStructuredData" =>
         (output.hasStructuredData
              <=> \E i \in 1..Len(input.blocks) :
                      input.blocks[i] = "{@context:schema.org}")

\* A malformed block stood between two well-formed blocks and both were
\* collected, in their order.
C17_Witness ==
    /\ output.kind = "extractStructuredData"
    /\ Len(input.blocks) = 3
    /\ input.blocks[1] = "{@context:schema.org}"
    /\ input.blocks[2] = "{"
    /\ input.blocks[3] = "{name}"
    /\ Len(output.structuredData) = 2
    /\ output.structuredData[1].context = "https://schema.org"
    /\ output.structuredData[2].context = "undefined"

\* C18: for a seed page without H1 the homepage suggestions of the analysis
\* hold the "add an H1" message and not the "multiple H1" message, in the
\* browser-driven controller and in the analysis object of the persisting
\* controller; and no page gets both messages, as suggestions or as issues
\* of the heading structure.
C18_MissingH1Suggested ==
    /\ output.kind = "generateSuggestions" =>
         LET s == Range(output.homepageSuggestions)
         IN  /\ Len(input.headings.h1) = 0 => (AddH1 \in s /\ OnlyOneH1 \notin s)
             /\ ~(AddH1 \in s /\ OnlyOneH1 \in s)
    /\ output.kind = "analyzePages" =>
         LET issues == { i.issue : i \in Range(output.analysis.technical.headingStructure.issues) }
         IN  /\ Len(input.headings.h1) = 0 =>
                    ("Missing H1" \in issues /\ "Multiple H1 tags" \notin issues)
             /\ ~("Missing H1" \in issues /\ "Multiple H1 tags" \in issues)
    /\ (output.kind = "persistAnalysis" /\ Len(input.headings.h1) = 0) =>
         /\ output.analysis.homepageSuggestions.t = "value"
         /\ AddH1 \in Range(output.analysis.homepageSuggestions.v)

\* What holds of the two functions that test the H1 headings: a page
\* without H1 gets the "add an H1" suggestion (the "Missing H1" issue), a
\* page with several gets the other message, a page with one gets neither.
C18_H1MessagesExclusive ==
    /\ output.kind = "generateSuggestions" =>
         LET s == Range(output.homepageSuggestions)
         IN  /\ AddH1 \in s <=> Len(input.headings.h1) = 0
             /\ OnlyOneH1 \in s <=> Len(input.headings.h1) > 1
    /\ output.kind = "analyzePages" =>
         LET issues == { i.issue : i \in Range(output.analysis.technical.headingStructure.issues) }
         IN  /\ "Missing H1" \in issues <=> Len(input.headings.h1) = 0
             /\ "Multiple H1 tags" \in issues <=> Len(input.headings.h1) > 1

\* ------------------------------------------------------------------ persistence

\* C19: in the persisting controller a report is stored exactly when the
\* success response is sent: the success response comes after the save, and
\* a request answered with 500 has stored no report and, when it was the
\* save that failed, generated no PDF.
C19_StoredIffSuccess ==
    (handler = "persist" /\ ~Invalid(body)) =>
        /\ responses = <<200>> => (db = 1 /\ "save" \in effects)
        /\ (pc = "done" /\ db = 1) => responses = <<200>>
        /\ responses = <<500>> => db = 0
        /\ (responses = <<500>> /\ db = 0) => pdf = "none"

====
